---- MODULE Spec2Model ----
(***************************************************************************)
(* Model of UniversalImageGenerator (universal_ai_image_generator.py):     *)
(* the credential registry, the five provider adapters, the Replicate poll *)
(* loop, download_image and the generate dispatcher.                       *)
(*                                                                         *)
(* Python strings are sequences of one-character strings; bytes are        *)
(* sequences of integers 0..255.  Every HTTP exchange is a step whose      *)
(* response is chosen by the environment; the requests of the call in      *)
(* progress are recorded in net.                                           *)
(***************************************************************************)
EXTENDS Integers, Sequences, FiniteSets, TLC

VARIABLES
    providers,        \* self.providers: lower-cased name -> api key
    download_folder,  \* self.download_folder
    files,            \* files the call in progress has opened for writing:
                      \* path -> bytes (the program never reads the folder)
    regs,             \* history of add_provider calls, as the caller made them
    pc,               \* position of the caller: idle, poll, adapter_done, done
    provider,         \* generate's provider argument, as passed
    prompt,           \* generate's / download_image's prompt argument
    result,           \* the adapter's return value (a dict, or None)
    ret,              \* the return value of generate / download_image
    net,              \* HTTP requests issued by the call in progress
    polls,            \* iterations of the Replicate loop begun in this call
    job,              \* status of the Replicate prediction on the server
    entry,            \* the configuration as generate found it on entry
    stamp,            \* download_image's reading of the clock
    filename          \* download_image's local filename

vars == <<providers, download_folder, files, regs, pc, provider, prompt,
          result, ret, net, polls, job, entry, stamp, filename>>

(***************************************************************************)
(* Bounds of the model.                                                    *)
(***************************************************************************)
MaxAdds == 2        \* add_provider calls per behaviour
MaxPending == 2     \* non-terminal status responses per Replicate job
MaxPromptLen == 2   \* length of the enumerated prompts of download_image calls

(***************************************************************************)
(* Characters and strings.                                                 *)
(***************************************************************************)
UpperChars == <<"A","B","C","D","E","F","G","H","I","J","K","L","M",
                "N","O","P","Q","R","S","T","U","V","W","X","Y","Z">>
LowerChars == <<"a","b","c","d","e","f","g","h","i","j","k","l","m",
                "n","o","p","q","r","s","t","u","v","w","x","y","z">>
DigitChars == <<"0","1","2","3","4","5","6","7","8","9">>

Range(s) == {s[i] : i \in 1..Len(s)}

IndexOf(c, s) == CHOOSE i \in 1..Len(s) : s[i] = c

\* variant: the name used as given
AsGiven(s) == s

UpperSet == Range(UpperChars)
LowerSet == Range(LowerChars)
DigitSet == Range(DigitChars)
ToLower == [c \in UpperSet |-> LowerChars[IndexOf(c, UpperChars)]]

LowerChar(c) == IF c \in UpperSet THEN ToLower[c] ELSE c
\* str.lower(), character by character
Lower(s) == [i \in 1..Len(s) |-> LowerChar(s[i])]

\* str.isalnum() of one character
IsAlnum(c) == c \in UpperSet \cup LowerSet \cup DigitSet

Whitespace == {" ", "\t", "\n", "\r"}

RECURSIVE LStrip(_)
LStrip(s) == IF s # <<>> /\ Head(s) \in Whitespace THEN LStrip(Tail(s)) ELSE s
RECURSIVE RStrip(_)
RStrip(s) == IF s # <<>> /\ s[Len(s)] \in Whitespace
             THEN RStrip(SubSeq(s, 1, Len(s) - 1)) ELSE s
\* str.strip()
Strip(s) == RStrip(LStrip(s))

\* str.replace(old, new) for single characters
Replace(s, old, new) == [i \in 1..Len(s) |-> IF s[i] = old THEN new ELSE s[i]]

\* s[:n]
Prefix(s, n) == SubSeq(s, 1, IF Len(s) < n THEN Len(s) ELSE n)

PromptCut == 50

KeepChar(c) == IsAlnum(c) \/ c \in {" ", "-", "_"}

\* variant: without .strip()
SafePromptNoStrip(p) == Replace(SelectSeq(Prefix(p, PromptCut), KeepChar), " ", "_")

\* safe_prompt of download_image
SafePrompt(p) == Replace(Strip(SelectSeq(Prefix(p, PromptCut), KeepChar)), " ", "_")

(***************************************************************************)
(* datetime.now().strftime("%Y%m%d_%H%M%S")                                *)
(***************************************************************************)
Digit(n) == DigitChars[n + 1]
Pad2(n) == <<Digit((n \div 10) % 10), Digit(n % 10)>>
Pad4(n) == <<Digit((n \div 1000) % 10), Digit((n \div 100) % 10)>> \o Pad2(n)
Timestamp(t) == Pad4(t.Y) \o Pad2(t.m) \o Pad2(t.d) \o <<"_">>
                \o Pad2(t.H) \o Pad2(t.M) \o Pad2(t.S)

\* readings of the clock
DateTimes == {[Y |-> 2024, m |-> 1, d |-> 2, H |-> 3, M |-> 4, S |-> 5],
              [Y |-> 2025, m |-> 12, d |-> 31, H |-> 23, M |-> 59, S |-> 58]}
NoTime == [Y |-> 0, m |-> 0, d |-> 0, H |-> 0, M |-> 0, S |-> 0]

\* os.path.join(folder, filename) for a relative filename
PathJoin(folder, name) ==
    IF folder = <<>> \/ folder[Len(folder)] = "/" THEN folder \o name
    ELSE folder \o <<"/">> \o name

(***************************************************************************)
(* base64.b64decode(s): binascii.a2b_base64 in its default, non-strict     *)
(* mode.  Characters outside the alphabet are skipped, a sufficient run of *)
(* padding ends the input, leftover characters raise binascii.Error.       *)
(***************************************************************************)
B64Alphabet == UpperChars \o LowerChars \o DigitChars \o <<"+", "/">>
B64Set == Range(B64Alphabet)
B64Table == [c \in B64Set |-> IndexOf(c, B64Alphabet) - 1]
B64Val(c) == B64Table[c]

RECURSIVE B64Scan(_, _, _, _, _, _)
B64Scan(s, i, quad, left, pads, out) ==
    IF i > Len(s) THEN [ok |-> quad = 0, bytes |-> out]
    ELSE IF s[i] = "=" THEN
        IF quad >= 2 /\ quad + pads + 1 >= 4 THEN [ok |-> TRUE, bytes |-> out]
        ELSE B64Scan(s, i + 1, quad, left, IF quad >= 2 THEN pads + 1 ELSE pads, out)
    ELSE IF s[i] \notin B64Set THEN B64Scan(s, i + 1, quad, left, pads, out)
    ELSE LET v == B64Val(s[i]) IN
        CASE quad = 0 -> B64Scan(s, i + 1, 1, v, 0, out)
          [] quad = 1 -> B64Scan(s, i + 1, 2, v % 16, 0,
                                 Append(out, left * 4 + (v \div 16)))
          [] quad = 2 -> B64Scan(s, i + 1, 3, v % 4, 0,
                                 Append(out, left * 16 + (v \div 4)))
          [] quad = 3 -> B64Scan(s, i + 1, 0, 0, 0, Append(out, left * 64 + v))

B64Decode(s) == B64Scan(s, 1, 0, 0, 0, <<>>)

(***************************************************************************)
(* Python values.                                                          *)
(***************************************************************************)
PyStr(s) == [type |-> "str", str |-> s, int |-> 0]
PyInt(n) == [type |-> "int", str |-> "", int |-> n]
PyNone == [type |-> "none", str |-> "", int |-> 0]

\* the adapters' return value None, and generate's / download_image's None
NoResult == [kind |-> "none", url |-> "", base64 |-> <<>>,
             has_provider |-> FALSE, provider |-> <<>>]
None == <<>>

UrlResult(u, name) == [kind |-> "url", url |-> u, base64 |-> <<>>,
                       has_provider |-> TRUE, provider |-> name]
Base64Result(b, name) == [kind |-> "base64", url |-> "", base64 |-> b,
                          has_provider |-> TRUE, provider |-> name]

\* variant: `if result is not False:`
NotFalse(r) == TRUE

\* `if result:` -- a non-empty dict is true, None is false
Truthy(r) == r.kind # "none"

(***************************************************************************)
(* Provider names.                                                         *)
(***************************************************************************)
openai == <<"o","p","e","n","a","i">>
grok == <<"g","r","o","k">>
stability == <<"s","t","a","b","i","l","i","t","y">>
replicate == <<"r","e","p","l","i","c","a","t","e">>
together == <<"t","o","g","e","t","h","e","r">>
unknown == <<"u","n","k","n","o","w","n">>

\* names as callers pass them to add_provider and generate
ProviderNames == {openai, <<"O","p","e","n","A","I">>, grok, stability,
                  replicate, together, <<"d","a","l","l","e">>}
ReplicateNames == {replicate, <<"R","E","P","L","I","C","A","T","E">>}
\* api keys are opaque: the k-th add_provider call of a run registers the
\* k-th key, so that any two registrations can be told apart
ApiKey(k) == <<"s","k","-">> \o Pad2(k)
\* the constructor's download_folder: the default, and one with a separator
Folders == {<<"a","i","_","g","e","n","e","r","a","t","e","d","_",
              "i","m","a","g","e","s">>,
            <<"o","u","t","/">>}

(***************************************************************************)
(* HTTP.  A response is what requests.post / requests.get gives back:      *)
(* kind "error" is an exception raised by requests itself (connection      *)
(* refused, timeout); otherwise code is the status code and shape says     *)
(* what the body holds.                                                    *)
(***************************************************************************)
\* response.raise_for_status() raises
RaisesForStatus(r) == r.code >= 400 /\ r.code < 600

\* POST .../images/generations of OpenAI, Grok and Together:
\* the body is not JSON, is JSON without data[0].url, or carries a url
UrlPostResponses ==
    {[kind |-> "error", code |-> 0, shape |-> "none", url |-> ""],
     [kind |-> "response", code |-> 500, shape |-> "malformed", url |-> ""],
     [kind |-> "response", code |-> 200, shape |-> "malformed", url |-> ""],
     [kind |-> "response", code |-> 200, shape |-> "nofield", url |-> ""]} \cup
    {[kind |-> "response", code |-> 200, shape |-> "ok", url |-> "https://cdn/img.png"]}

\* POST .../text-to-image of Stability: artifacts[0].base64
Base64Payloads == {<<>>, <<"i","V","A","=">>, <<"A">>}
StabilityResponses ==
    {[kind |-> "error", code |-> 0, shape |-> "none", base64 |-> <<>>],
     [kind |-> "response", code |-> 500, shape |-> "malformed", base64 |-> <<>>],
     [kind |-> "response", code |-> 200, shape |-> "malformed", base64 |-> <<>>],
     [kind |-> "response", code |-> 200, shape |-> "nofield", base64 |-> <<>>]} \cup
    {[kind |-> "response", code |-> 200, shape |-> "ok", base64 |-> b] :
        b \in Base64Payloads}

\* POST .../predictions of Replicate: urls.get
SubmitResponses ==
    {[kind |-> "error", code |-> 0, shape |-> "none", url |-> ""],
     [kind |-> "response", code |-> 500, shape |-> "malformed", url |-> ""],
     [kind |-> "response", code |-> 200, shape |-> "malformed", url |-> ""],
     [kind |-> "response", code |-> 200, shape |-> "nofield", url |-> ""]} \cup
    {[kind |-> "response", code |-> 200, shape |-> "ok", url |-> "https://api/p/1"]}

\* GET prediction_url.  A 200 body is the prediction (its status is the
\* job's, its output a list, a single value, an empty list or absent); an
\* error body is not JSON, or the API's problem document, whose "status"
\* member is the numeric status code.
OutputShapes == {"list", "scalar", "emptylist", "missing"}
StatusResponses(j) ==
    {[kind |-> "error", code |-> 0, shape |-> "none", status |-> PyNone,
      output |-> "missing"],
     [kind |-> "response", code |-> 500, shape |-> "malformed", status |-> PyNone,
      output |-> "missing"],
     [kind |-> "response", code |-> 200, shape |-> "nostatus", status |-> PyNone,
      output |-> "missing"],
     [kind |-> "response", code |-> 500, shape |-> "json", status |-> PyInt(500),
      output |-> "missing"]} \cup
    {[kind |-> "response", code |-> 200, shape |-> "json", status |-> PyStr(j),
      output |-> o] : o \in (IF j = "succeeded" THEN OutputShapes ELSE {"missing"})}

\* GET of the image url
ImageBytes == {<<>>, <<137, 80, 78, 71>>}
ImageResponses ==
    {[kind |-> "error", code |-> 0, content |-> <<>>],
     [kind |-> "response", code |-> 500, content |-> <<>>]} \cup
    {[kind |-> "response", code |-> 200, content |-> b] : b \in ImageBytes}
NoImageResponse == [kind |-> "none", code |-> 0, content |-> <<>>]

\* outcome of open(filepath, 'wb') and f.write(image_data): both succeed, open
\* raises (no file), or write raises (the file is left truncated)
IoOutcomes == {"ok", "open_raises", "write_raises"}

\* an entry of net
Request(req, r, st, o) == [req |-> req, kind |-> r.kind, code |-> r.code,
                           shape |-> IF req = "IMAGE" THEN "bytes" ELSE r.shape,
                           status |-> st, output |-> o]

(***************************************************************************)
(* Inputs of generate.                                                     *)
(***************************************************************************)
SunRain == <<"s","u","n"," ","&"," ","r","a","i","n","!","!">>
Prompts == {<<>>, SunRain}

\* inputs of direct download_image calls
Ten == <<"a","b","c","d","e","f","g","h","i","j">>
LongPrompt == Ten \o Ten \o Ten \o Ten \o <<"k","-","m","n","o","p","q","r","s"," ">>
              \o <<"x","y">>
LongAlnum == Ten \o Ten \o Ten \o Ten \o Ten \o <<"0","1">>
PromptChars == {"a", "Z", " ", "&", "-"}
ShortPrompts == UNION {[1..n -> PromptChars] : n \in 0..MaxPromptLen}
DirectPrompts == ShortPrompts \cup {SunRain, LongPrompt, LongAlnum}
DirectResults == {UrlResult("https://cdn/img.png", grok),
                  [UrlResult("https://cdn/img.png", <<>>) EXCEPT !.has_provider = FALSE],
                  Base64Result(<<"A","Q","I","D">>, stability),
                  NoResult}

\* d[k] = v
Put(d, k, v) == [x \in DOMAIN d \cup {k} |-> IF x = k THEN v ELSE d[x]]

NoEntry == [providers |-> [k \in {} |-> <<>>], folder |-> <<>>]

NoCall == /\ provider = <<>> /\ prompt = <<>> /\ result = NoResult /\ ret = None
          /\ net = <<>> /\ polls = 0 /\ job = "none" /\ entry = NoEntry
          /\ stamp = NoTime /\ filename = <<>>

\* __init__
Init == /\ providers = [k \in {} |-> <<>>]
        /\ download_folder \in Folders
        /\ files = [k \in {} |-> <<>>]
        /\ regs = <<>>
        /\ pc = "idle"
        /\ NoCall

\* add_provider
AddProvider(name, key) ==
    /\ pc = "idle"
    /\ Len(regs) < MaxAdds
    /\ providers' = Put(providers, Lower(name), key)
    /\ regs' = Append(regs, [name |-> name, key |-> key])
    /\ UNCHANGED <<download_folder, files, pc, provider, prompt, result, ret,
                   net, polls, job, entry, stamp, filename>>

\* variant: the check asks whether any provider is configured
ConfiguredAny(name) == DOMAIN providers # {}

\* `'openai' not in self.providers` and its four siblings
Configured(name) == name \in DOMAIN providers

\* the try block of generate_openai, generate_grok and generate_together
UrlAdapterResult(name, r) ==
    IF r.kind = "error" \/ RaisesForStatus(r) \/ r.shape # "ok" THEN NoResult
    ELSE UrlResult(r.url, name)

\* the try block of generate_stability
StabilityAdapterResult(r) ==
    IF r.kind = "error" \/ RaisesForStatus(r) \/ r.shape # "ok" THEN NoResult
    ELSE Base64Result(r.base64, stability)

\* generate is entered with provider pr and prompt p
Enter(pr, p) ==
    /\ pc = "idle"
    /\ provider' = pr
    /\ prompt' = p
    /\ entry' = [providers |-> providers, folder |-> download_folder]

\* one synchronous adapter: the credential check, the POST, the result
\* (outcome maps each response the endpoint can give to the adapter's result)
SyncAdapter(name, outcome) ==
    /\ IF ~Configured(name)
       THEN result' = NoResult /\ net' = net
       ELSE \E r \in DOMAIN outcome :
               /\ net' = Append(net, Request("POST", r, PyNone, "none"))
               /\ result' = outcome[r]
    /\ pc' = "adapter_done"
    /\ UNCHANGED <<providers, download_folder, files, regs, ret, polls, job,
                   stamp, filename>>

OpenAIResult == [r \in UrlPostResponses |-> UrlAdapterResult(openai, r)]
GrokResult == [r \in UrlPostResponses |-> UrlAdapterResult(grok, r)]
StabilityResult == [r \in StabilityResponses |-> StabilityAdapterResult(r)]
TogetherResult == [r \in UrlPostResponses |-> UrlAdapterResult(together, r)]

\* generate -> generate_openai
GenerateOpenAI(pr, p) ==
    Enter(pr, p) /\ Lower(pr) = openai
    /\ SyncAdapter(openai, OpenAIResult)

\* generate -> generate_grok
GenerateGrok(pr, p) ==
    Enter(pr, p) /\ Lower(pr) = grok
    /\ SyncAdapter(grok, GrokResult)

\* generate -> generate_stability
GenerateStability(pr, p) ==
    Enter(pr, p) /\ Lower(pr) = stability
    /\ SyncAdapter(stability, StabilityResult)

\* generate -> generate_together
GenerateTogether(pr, p) ==
    Enter(pr, p) /\ Lower(pr) = together
    /\ SyncAdapter(together, TogetherResult)

\* generate, the else branch: unknown provider
GenerateUnknown(pr, p) ==
    /\ Enter(pr, p)
    /\ Lower(pr) \notin {openai, grok, stability, replicate, together}
    /\ ret' = None
    /\ pc' = "done"
    /\ UNCHANGED <<providers, download_folder, files, regs, result, net,
                   polls, job, stamp, filename>>

\* generate -> generate_replicate, up to the entry of the poll loop
GenerateReplicate(pr, p) ==
    /\ Enter(pr, p) /\ Lower(pr) = replicate
    /\ IF ~Configured(replicate)
       THEN result' = NoResult /\ net' = net /\ pc' = "adapter_done" /\ job' = job
       ELSE \E r \in SubmitResponses :
               /\ net' = Append(net, Request("POST", r, PyNone, "none"))
               /\ result' = NoResult
               /\ IF r.kind = "error" \/ RaisesForStatus(r) \/ r.shape # "ok"
                  THEN pc' = "adapter_done" /\ job' = job
                  ELSE pc' = "poll" /\ job' = "processing"
    /\ UNCHANGED <<providers, download_folder, files, regs, ret, polls,
                   stamp, filename>>

\* the prediction finishes on the server
JobProgress ==
    /\ pc = "poll"
    /\ job = "processing"
    /\ job' \in {"succeeded", "failed"}
    /\ UNCHANGED <<providers, download_folder, files, regs, pc, provider, prompt,
                   result, ret, net, polls, entry, stamp, filename>>

\* variants: the status compared with a word the API does not use
IsSucceededTypo(st) == st = PyStr("success")
IsFailedTypo(st) == st = PyStr("failure")

IsSucceeded(st) == st = PyStr("succeeded")
IsFailed(st) == st = PyStr("failed")

\* status responses so far that made the loop go round again
Pending == Cardinality({i \in 1..Len(net) :
                /\ net[i].req = "STATUS" /\ net[i].shape = "json"
                /\ net[i].status \notin {PyStr("succeeded"), PyStr("failed")}})

\* the environment answers at most MaxPending times with a non-terminal status
Answers(r) == \/ r.kind = "error"
              \/ r.shape # "json"
              \/ r.status \in {PyStr("succeeded"), PyStr("failed")}
              \/ Pending < MaxPending

\* status_data['output'][0] if isinstance(status_data['output'], list) else ...
OutputUrl(o) == IF o = "list" THEN "https://out/0.png" ELSE "https://out/single.png"

\* variant: the two status branches exchanged
PollOutcomeSwapped(r) ==
    IF r.kind = "error" \/ r.shape \in {"malformed", "nostatus"} THEN "raise"
    ELSE IF r.status = PyStr("failed")
         THEN (IF r.output \in {"missing", "emptylist"} THEN "raise" ELSE "return")
    ELSE IF r.status = PyStr("succeeded") THEN "fail"
    ELSE "wait"

\* what one iteration of `while True` does with the status response:
\* "raise" (to the except clause), "return", "fail" or "wait"
PollOutcome(r) ==
    IF r.kind = "error" \/ r.shape \in {"malformed", "nostatus"} THEN "raise"
    ELSE IF IsSucceeded(r.status)
         THEN (IF r.output \in {"missing", "emptylist"} THEN "raise" ELSE "return")
    ELSE IF IsFailed(r.status) THEN "fail"
    ELSE "wait"

\* one iteration of the poll loop: time.sleep(2), GET, the branches
ReplicatePoll ==
    /\ pc = "poll"
    /\ \E r \in StatusResponses(job) :
          /\ Answers(r)
          /\ polls' = polls + 1
          /\ net' = Append(net, Request("STATUS", r, r.status, r.output))
          /\ CASE PollOutcome(r) = "return" ->
                    result' = UrlResult(OutputUrl(r.output), replicate)
                    /\ pc' = "adapter_done"
               [] PollOutcome(r) \in {"raise", "fail"} ->
                    result' = NoResult /\ pc' = "adapter_done"
               [] OTHER -> result' = result /\ pc' = "poll"
    /\ UNCHANGED <<providers, download_folder, files, regs, provider, prompt,
                   ret, job, entry, stamp, filename>>

\* download_image(res, p): clock reading t, image response r, disk outcome io
DownloadImage(res, p, t, r, io) ==
    LET prov == IF res.has_provider THEN res.provider ELSE unknown
        fname == Timestamp(t) \o <<"_">> \o prov \o <<"_">> \o SafePrompt(p)
                 \o <<".","p","n","g">>
        path == PathJoin(download_folder, fname)
        data == CASE res.kind = "url" ->
                       IF r.kind = "error" \/ RaisesForStatus(r)
                       THEN [ok |-> FALSE, bytes |-> <<>>]
                       ELSE [ok |-> TRUE, bytes |-> r.content]
                  [] res.kind = "base64" -> B64Decode(res.base64)
                  [] OTHER -> [ok |-> FALSE, bytes |-> <<>>]
    IN  /\ stamp' = t
        /\ filename' = fname
        /\ net' = IF res.kind = "url" THEN Append(net, Request("IMAGE", r, PyNone, "none"))
                  ELSE net
        /\ IF ~data.ok \/ io = "open_raises"
           THEN ret' = None /\ files' = files
           ELSE IF io = "write_raises"
           THEN ret' = None /\ files' = Put(files, path, <<>>)
           ELSE ret' = path /\ files' = Put(files, path, data.bytes)

\* generate, after the adapter: `if result: return self.download_image(...)`
GenerateFinish ==
    /\ pc = "adapter_done"
    /\ IF Truthy(result)
       THEN \E t \in DateTimes, io \in IoOutcomes :
            \E r \in (IF result.kind = "url" THEN ImageResponses ELSE {NoImageResponse}) :
                DownloadImage(result, prompt, t, r, io)
       ELSE ret' = None /\ UNCHANGED <<files, net, stamp, filename>>
    /\ pc' = "done"
    /\ UNCHANGED <<providers, download_folder, regs, provider, prompt, result,
                   polls, job, entry>>

\* the caller has the return value and goes on
Return ==
    /\ pc = "done"
    /\ pc' = "idle"
    /\ provider' = <<>> /\ prompt' = <<>> /\ result' = NoResult /\ ret' = None
    /\ net' = <<>> /\ polls' = 0 /\ job' = "none" /\ entry' = NoEntry
    /\ stamp' = NoTime /\ filename' = <<>>
    /\ files' = [k \in {} |-> <<>>]
    /\ UNCHANGED <<providers, download_folder, regs>>

\* download_image called directly with a result dict
DownloadImageCall(res, p) ==
    /\ pc = "idle"
    /\ result' = res
    /\ prompt' = p
    /\ \E t \in DateTimes, io \in IoOutcomes :
       \E r \in (IF res.kind = "url" THEN ImageResponses ELSE {NoImageResponse}) :
           DownloadImage(res, p, t, r, io)
    /\ pc' = "done"
    /\ UNCHANGED <<providers, download_folder, regs, provider, polls, job, entry>>

Next ==
    \/ \E name \in ProviderNames : AddProvider(name, ApiKey(Len(regs) + 1))
    \/ \E pr \in ProviderNames, p \in Prompts : GenerateOpenAI(pr, p)
    \/ \E pr \in ProviderNames, p \in Prompts : GenerateGrok(pr, p)
    \/ \E pr \in ProviderNames, p \in Prompts : GenerateStability(pr, p)
    \/ \E pr \in ProviderNames, p \in Prompts : GenerateReplicate(pr, p)
    \/ \E pr \in ProviderNames, p \in Prompts : GenerateTogether(pr, p)
    \/ \E pr \in ProviderNames, p \in Prompts : GenerateUnknown(pr, p)
    \/ JobProgress
    \/ ReplicatePoll
    \/ GenerateFinish
    \/ Return

Spec == Init /\ [][Next]_vars

\* the Replicate adapter alone
NextReplicate ==
    \/ \E name \in ReplicateNames : AddProvider(name, ApiKey(Len(regs) + 1))
    \/ \E pr \in ReplicateNames : GenerateReplicate(pr, SunRain)
    \/ JobProgress
    \/ ReplicatePoll
    \/ GenerateFinish
    \/ Return

SpecReplicate == Init /\ [][NextReplicate]_vars

\* the blocking calls of one generate return: the loop and the call go on
LiveReplicate == SpecReplicate /\ WF_vars(ReplicatePoll) /\ WF_vars(GenerateFinish)

\* download_image alone, on its wider set of prompts
NextDownload ==
    \/ \E res \in DirectResults, p \in DirectPrompts : DownloadImageCall(res, p)
    \/ Return

SpecDownload == Init /\ [][NextDownload]_vars

(***************************************************************************)
(* Vocabulary of the properties.                                           *)
(***************************************************************************)
ToUpper == [c \in LowerSet |-> UpperChars[IndexOf(c, LowerChars)]]
UpperChar(c) == IF c \in LowerSet THEN ToUpper[c] ELSE c

\* two names are the same name up to the case of their letters
EqIgnoreCase(a, b) ==
    Len(a) = Len(b) /\ \A i \in 1..Len(a) : UpperChar(a[i]) = UpperChar(b[i])

\* some add_provider call registered a credential under this name
Registered(name) == \E i \in 1..Len(regs) : EqIgnoreCase(regs[i].name, name)

KnownName(name) ==
    \E n \in {openai, grok, stability, replicate, together} : EqIgnoreCase(name, n)

\* a generate call is in progress or has just returned
InGenerate == pc # "idle" /\ provider # <<>>

Entries(req) == {i \in 1..Len(net) : net[i].req = req}

TerminalEntry(e) == /\ e.req = "STATUS" /\ e.kind = "response" /\ e.shape = "json"
                    /\ e.status \in {PyStr("succeeded"), PyStr("failed")}

\* a request that failed: transport error, non-success status, malformed
\* body or missing field
FailedEntry(e) == \/ e.kind = "error"
                  \/ e.code >= 400
                  \/ e.shape \in {"malformed", "nofield", "nostatus"}
                  \/ (e.req = "STATUS" /\ e.status = PyStr("succeeded")
                      /\ e.output \in {"missing", "emptylist"})

NoDownload == /\ Entries("IMAGE") = {} /\ DOMAIN files = {}
              /\ filename = <<>> /\ ret = None

(***************************************************************************)
(* C1: generate with the empty prompt fails and issues no HTTP request,    *)
(* whatever the provider and whether or not it is registered.              *)
(***************************************************************************)
C1_EmptyPromptNoRequest ==
    (InGenerate /\ prompt = <<>>) => (net = <<>> /\ ret = None)

(***************************************************************************)
(* C2: generate for a provider name without a registered credential fails, *)
(* issues no HTTP request and writes no file.                              *)
(***************************************************************************)
C2_UnregisteredNoNetwork ==
    (InGenerate /\ ~Registered(provider)) => (net = <<>> /\ NoDownload)

C2_Witness ==
    /\ pc = "done" /\ provider = grok /\ prompt = SunRain
    /\ regs # <<>> /\ ~Registered(grok)

(***************************************************************************)
(* C3: whenever generate returns a path for a non-empty prompt, a file     *)
(* with at least one byte exists at that path.                             *)
(***************************************************************************)
C3_ReturnedFileNonEmpty ==
    (InGenerate /\ pc = "done" /\ prompt # <<>> /\ ret # None)
        => (ret \in DOMAIN files /\ files[ret] # <<>>)

(***************************************************************************)
(* C4: when the adapter fails -- no credential, a failed generation POST,  *)
(* a status request that raises, a job reported failed, any None result -- *)
(* generate returns None, and download_image is not invoked: no image GET, *)
(* no filename, no file.                                                   *)
(***************************************************************************)
AdapterFailure ==
    \/ result = NoResult
    \/ ~Registered(provider)
    \/ \E i \in Entries("POST") : FailedEntry(net[i])
    \/ \E i \in Entries("STATUS") :
          \/ net[i].kind = "error"
          \/ net[i].shape \in {"malformed", "nostatus"}
          \/ net[i].status = PyStr("failed")

\* C4: a failed adapter means no download and a None return
C4_FailureNoDownload ==
    (InGenerate /\ pc \in {"adapter_done", "done"} /\ AdapterFailure) => NoDownload

C4_Witness ==
    /\ pc = "done" /\ Registered(provider) /\ KnownName(provider)
    /\ net # <<>> /\ result = NoResult

(***************************************************************************)
(* C5: submit succeeds, the status endpoint reports pending, pending,      *)
(* succeeded (with an output): generate_replicate returns a url result     *)
(* after exactly N poll iterations, an iteration being one wait followed   *)
(* by one status request.  The claim has N = 2; the loop makes N = 3.      *)
(***************************************************************************)
PendingPendingSucceeded ==
    /\ InGenerate /\ pc \in {"adapter_done", "done"} /\ prompt # <<>>
    /\ Len(net) = 4
    /\ net[1].req = "POST" /\ ~FailedEntry(net[1])
    /\ \A i \in 2..4 : net[i].req = "STATUS" /\ net[i].kind = "response"
                       /\ net[i].code = 200 /\ net[i].shape = "json"
    /\ net[2].status = PyStr("processing")
    /\ net[3].status = PyStr("processing")
    /\ net[4].status = PyStr("succeeded")
    /\ net[4].output \in {"list", "scalar"}

\* C5 as claimed: pending, pending, succeeded returns after two iterations
C5_TwoIterations ==
    PendingPendingSucceeded
        => (result.kind = "url" /\ result.provider = replicate /\ polls = 2)

\* C5 as the loop runs: pending, pending, succeeded returns after three
C5_ThreeIterations ==
    PendingPendingSucceeded
        => (result.kind = "url" /\ result.provider = replicate /\ polls = 3)

C5_Witness == PendingPendingSucceeded /\ pc = "adapter_done" /\ polls = 3

(***************************************************************************)
(* C6: once a status response reports failed or succeeded, the adapter     *)
(* has returned (None for failed): no status request and no wait follows   *)
(* a terminal status.                                                      *)
(***************************************************************************)
C6_NoPollAfterTerminal ==
    /\ \A i \in Entries("STATUS") :
          TerminalEntry(net[i]) =>
              /\ \A j \in Entries("STATUS") : j <= i
              /\ polls = Cardinality(Entries("STATUS"))
              /\ pc # "poll"
              /\ (net[i].status = PyStr("failed") => (result = NoResult /\ ret = None))
    /\ polls = Cardinality(Entries("STATUS"))

C6_Witness ==
    /\ pc = "adapter_done" /\ Len(net) = 3
    /\ net[2].status = PyStr("processing") /\ net[3].status = PyStr("failed")
    /\ polls = 2

(***************************************************************************)
(* C7: no retry.  At most one generation POST per call; after a request    *)
(* that failed no further request is sent, and the call returns None.      *)
(***************************************************************************)
C7_NoRequestAfterFailure ==
    (InGenerate /\ prompt # <<>>) =>
        /\ Cardinality(Entries("POST")) <= 1
        /\ \A i \in 1..Len(net) : FailedEntry(net[i]) => i = Len(net)
        /\ (\E i \in 1..Len(net) : FailedEntry(net[i])) => (pc # "poll" /\ ret = None)

(***************************************************************************)
(* C8: the filename is {timestamp}_{provider}_{safe_prompt}.png, where     *)
(* safe_prompt is the first 50 characters of the prompt, reduced to        *)
(* alphanumerics, spaces, hyphens and underscores, trimmed, with every     *)
(* remaining space turned into an underscore: only alphanumerics, hyphens  *)
(* and underscores, at most 50 of them, and "sun__rain" for                *)
(* "sun & rain!!".                                                         *)
(***************************************************************************)
Alphanumerics ==
    {"a","b","c","d","e","f","g","h","i","j","k","l","m","n","o","p","q","r",
     "s","t","u","v","w","x","y","z",
     "A","B","C","D","E","F","G","H","I","J","K","L","M","N","O","P","Q","R",
     "S","T","U","V","W","X","Y","Z",
     "0","1","2","3","4","5","6","7","8","9"}

RECURSIVE RefKeep(_)
RefKeep(s) ==
    IF s = <<>> THEN <<>>
    ELSE IF Head(s) \in Alphanumerics \cup {" ", "-", "_"}
         THEN <<Head(s)>> \o RefKeep(Tail(s))
         ELSE RefKeep(Tail(s))

RefTrim(s) ==
    LET inked == {i \in 1..Len(s) : s[i] # " "}
    IN  IF inked = {} THEN <<>>
        ELSE SubSeq(s, CHOOSE i \in inked : \A j \in inked : i <= j,
                       CHOOSE i \in inked : \A j \in inked : j <= i)

RefSafePrompt(p) ==
    LET first50 == [i \in 1..(IF Len(p) > 50 THEN 50 ELSE Len(p)) |-> p[i]]
        trimmed == RefTrim(RefKeep(first50))
    IN  [i \in 1..Len(trimmed) |-> IF trimmed[i] = " " THEN "_" ELSE trimmed[i]]

\* C8: the filename's safe_prompt part is the reference's
C8_SafePromptInFilename ==
    (pc = "done" /\ filename # <<>>) =>
        LET prov == IF result.has_provider THEN result.provider ELSE unknown
            head == Timestamp(stamp) \o <<"_">> \o prov \o <<"_">>
            safe == SubSeq(filename, Len(head) + 1, Len(filename) - 4)
        IN  /\ Len(filename) >= Len(head) + 4
            /\ SubSeq(filename, 1, Len(head)) = head
            /\ SubSeq(filename, Len(filename) - 3, Len(filename)) = <<".","p","n","g">>
            /\ safe = RefSafePrompt(prompt)
            /\ \A i \in 1..Len(safe) : safe[i] \in Alphanumerics \cup {"-", "_"}
            /\ Len(safe) <= 50
            /\ prompt = SunRain => safe = <<"s","u","n","_","_","r","a","i","n">>

C8_Witness ==
    /\ pc = "done" /\ prompt = SunRain /\ ret # None
    /\ filename = <<"2","0","2","4","0","1","0","2","_","0","3","0","4","0","5",
                    "_","g","r","o","k",
                    "_","s","u","n","_","_","r","a","i","n",".","p","n","g">>

(***************************************************************************)
(* C9: the credential mapping has exactly one entry per registered name    *)
(* up to case, under the lower-cased name, holding the secret of the       *)
(* latest add_provider for that name up to case; generate changes neither  *)
(* the mapping nor the folder; and generate finds a credential whatever    *)
(* the casing it was registered and is asked for under.                    *)
(***************************************************************************)
LatestKey(name) ==
    LET hits == {i \in 1..Len(regs) : EqIgnoreCase(regs[i].name, name)}
    IN  regs[CHOOSE i \in hits : \A j \in hits : j <= i].key

\* C9: one lower-cased entry per registered name, latest secret wins,
\* generate changes nothing and finds the credential under any casing
C9_CredentialMapping ==
    /\ \A k \in DOMAIN providers :
          /\ \A i \in 1..Len(k) : k[i] \notin UpperSet
          /\ Registered(k)
          /\ providers[k] = LatestKey(k)
    /\ \A i \in 1..Len(regs) :
          Cardinality({k \in DOMAIN providers : EqIgnoreCase(k, regs[i].name)}) = 1
    /\ InGenerate =>
          /\ providers = entry.providers
          /\ download_folder = entry.folder
          /\ (KnownName(provider) /\ Registered(provider)) => Entries("POST") # {}

C9_Witness ==
    /\ Len(regs) = 2
    /\ regs[1].name # regs[2].name /\ EqIgnoreCase(regs[1].name, regs[2].name)
    /\ regs[1].key # regs[2].key
    /\ pc = "done" /\ provider # regs[2].name /\ EqIgnoreCase(provider, regs[2].name)
    /\ ret # None

(***************************************************************************)
(* C10: the poll loop has no timeout.  It goes round again exactly when    *)
(* the status response is well-formed and reports neither succeeded nor    *)
(* failed, it ends only on a status response, and once the job is          *)
(* terminal the adapter eventually returns.                                *)
(***************************************************************************)
Continues(e) == /\ e.kind = "response" /\ e.shape = "json"
                /\ e.status \notin {PyStr("succeeded"), PyStr("failed")}

C10_Step ==
    pc = "poll" =>
        /\ pc' # "poll" => Len(net') = Len(net) + 1
        /\ Len(net') = Len(net) + 1 =>
              /\ net'[Len(net')].req = "STATUS"
              /\ polls' = polls + 1
              /\ (pc' = "poll") <=> Continues(net'[Len(net')])

\* C10: the loop ends exactly on a terminal status or an error, and does end
\* once the job is terminal
C10_PollUntilTerminal ==
    /\ [][C10_Step]_vars
    /\ (pc = "poll" /\ job \in {"succeeded", "failed"}) ~> (pc # "poll")

C10_Witness == pc = "poll" /\ polls = 2 /\ job = "succeeded"

====
